---------------------------- MODULE Spec2Model ----------------------------
(***************************************************************************)
(* A model of the pantomime class-file parser: the big-endian primitive    *)
(* cursor (primitives.rs), the constant-pool item decoder, the typed pool  *)
(* accessors and the attribute / member decoders (components.rs), and the  *)
(* ClassFile aggregator (lib.rs).                                          *)
(*                                                                         *)
(* The byte stream is a finite sequence of bytes 0..255 and the cursor is  *)
(* the number of bytes consumed so far.  U1 and U2 values are naturals.    *)
(* A U4 value v is kept as its two 16-bit halves [hi, lo], standing for    *)
(* hi * 2^16 + lo, because the model checker's integers are 32 bits wide.  *)
(* A usize that wrapped below zero is kept as its negative representative  *)
(* (-1 stands for usize::MAX).                                             *)
(***************************************************************************)
EXTENDS Integers, Sequences, FiniteSets, TLC

(***************************************************************************)
(* Results.  Every decoder returns [ok, pos, val, err]: pos is the cursor  *)
(* after the call.  A panic (an arithmetic overflow in a build with        *)
(* overflow checks) is the error kind "Panic": it is not a returned Err.   *)
(***************************************************************************)
NoErr == [kind |-> "None", arg |-> 0, name |-> ""]

NoVal == [none |-> TRUE]

Ok(p, v) == [ok |-> TRUE, pos |-> p, val |-> v, err |-> NoErr]

Fail(p, e) == [ok |-> FALSE, pos |-> p, val |-> NoVal, err |-> e]

\* `let r = <call>; <rest>` is Only({<rest> : r \in {<call>}}): the one element
\* of a singleton set.  The call is made once, whatever <rest> does with r.
Only(S) == CHOOSE r \in S : TRUE

\* ParserError::Io(IoError) built by new_eof_error
new_eof_error == [kind |-> "Io", arg |-> 0, name |-> "UnexpectedEof"]

\* An error that forgets the tag it was raised for.
UnknownConstantPoolTag_without_tag(tag) ==
    [kind |-> "UnknownConstantPoolTag", arg |-> 0, name |-> ""]

UnknownConstantPoolTag(tag) ==
    [kind |-> "UnknownConstantPoolTag", arg |-> tag, name |-> ""]

UnexpectedConstantPoolItem(friendly) ==
    [kind |-> "UnexpectedConstantPoolItem", arg |-> 0, name |-> friendly]

ConstantPoolIndexOutOfBounds(actual_index) ==
    [kind |-> "ConstantPoolIndexOutOfBounds", arg |-> actual_index, name |-> ""]

InvalidUtf8 == [kind |-> "InvalidUtf8", arg |-> 0, name |-> ""]

Panic(what) == [kind |-> "Panic", arg |-> 0, name |-> what]

(***************************************************************************)
(* primitives.rs: the cursor.                                              *)
(***************************************************************************)
next_u1(bytes, pos) ==
    IF pos < Len(bytes) THEN Ok(pos + 1, bytes[pos + 1])
    ELSE Fail(pos, new_eof_error)

\* Each try!(..) splits its function in two: `let r = try!(<call>); <rest>`
\* is <rest> as an operator of r, which passes a failed r on, applied to <call>.
next_u2_sum(first, second) ==
    IF ~second.ok THEN second
    ELSE Ok(second.pos, ((first.val * 256) + second.val) % 65536)

next_u2_second(bytes, first) ==
    IF ~first.ok THEN first
    ELSE Only({next_u2_sum(first, second)
                 : second \in {next_u1(bytes, first.pos)}})

next_u2(bytes, pos) == Only({next_u2_second(bytes, first)
                               : first \in {next_u1(bytes, pos)}})

next_u4_sum(first, second) ==
    IF ~second.ok THEN second
    ELSE Ok(second.pos, [hi |-> first.val, lo |-> second.val])

next_u4_second(bytes, first) ==
    IF ~first.ok THEN first
    ELSE Only({next_u4_sum(first, second)
                 : second \in {next_u2(bytes, first.pos)}})

next_u4(bytes, pos) == Only({next_u4_second(bytes, first)
                               : first \in {next_u2(bytes, pos)}})

\* A loop that stops at the end of the stream instead of failing, as
\* `iter.take(n).collect()` would.
read_bytes_truncating(bytes, pos, n) ==
    IF pos + n <= Len(bytes)
    THEN Ok(pos + n, SubSeq(bytes, pos + 1, pos + n))
    ELSE Ok(Len(bytes), SubSeq(bytes, pos + 1, Len(bytes)))

\* `for _ in 0..n { v.push(try!(iter.next_u1())) }` for a U2 count n: the
\* loop takes n bytes, or runs the stream dry and fails at its end.
read_bytes(bytes, pos, n) ==
    IF pos + n <= Len(bytes)
    THEN Ok(pos + n, SubSeq(bytes, pos + 1, pos + n))
    ELSE Fail(Len(bytes), new_eof_error)

\* The same loop for a U4 count.  A count with a non-zero high half is at
\* least 2^16, more than any stream considered here holds.
read_bytes_u4(bytes, pos, n) ==
    IF n.hi = 0 THEN read_bytes(bytes, pos, n.lo)
    ELSE Fail(Len(bytes), new_eof_error)

(***************************************************************************)
(* String::from_utf8: the bytes are kept as they are when they are         *)
(* well-formed UTF-8 and rejected otherwise.                               *)
(***************************************************************************)
IsCont(b) == b >= 128 /\ b <= 191

RECURSIVE utf8_valid_from(_, _)
utf8_valid_from(bs, i) ==
    IF i > Len(bs) THEN TRUE ELSE
    LET b == bs[i]
        has(k) == i + k <= Len(bs)
    IN
    IF b <= 127 THEN utf8_valid_from(bs, i + 1)
    ELSE IF b >= 194 /\ b <= 223
    THEN has(1) /\ IsCont(bs[i + 1]) /\ utf8_valid_from(bs, i + 2)
    ELSE IF b >= 224 /\ b <= 239
    THEN /\ has(2)
         /\ IsCont(bs[i + 1]) /\ IsCont(bs[i + 2])
         /\ (b = 224 => bs[i + 1] >= 160)
         /\ (b = 237 => bs[i + 1] <= 159)
         /\ utf8_valid_from(bs, i + 3)
    ELSE IF b >= 240 /\ b <= 244
    THEN /\ has(3)
         /\ IsCont(bs[i + 1]) /\ IsCont(bs[i + 2]) /\ IsCont(bs[i + 3])
         /\ (b = 240 => bs[i + 1] >= 144)
         /\ (b = 244 => bs[i + 1] <= 143)
         /\ utf8_valid_from(bs, i + 4)
    ELSE FALSE

from_utf8(byte_vec) ==
    IF utf8_valid_from(byte_vec, 1) THEN Ok(0, byte_vec) ELSE Fail(0, InvalidUtf8)

(***************************************************************************)
(* components.rs: ConstantPoolItem and its decoder.                        *)
(***************************************************************************)
Empty == [kind |-> "Empty"]

\* The variants of enum ConstantPoolItem.
ConstantPoolItemKinds ==
    {"Empty", "Class", "Field", "Method", "InterfaceMethod", "String",
     "Integer", "Float", "Long", "Double", "NameAndType", "Utf8",
     "MethodHandle", "MethodType", "InvokeDynamic"}

\* two consecutive try!(iter.next_u2()) in a struct literal
pair_of(a, b) == IF ~b.ok THEN b ELSE Ok(b.pos, <<a.val, b.val>>)

next_u2_pair_second(bytes, a) ==
    IF ~a.ok THEN a ELSE pair_of(a, next_u2(bytes, a.pos))

next_u2_pair(bytes, pos) == Only({next_u2_pair_second(bytes, a)
                                    : a \in {next_u2(bytes, pos)}})

\* two consecutive try!(iter.next_u4()) in a struct literal
next_u4_pair_second(bytes, a) ==
    IF ~a.ok THEN a ELSE pair_of(a, next_u4(bytes, a.pos))

next_u4_pair(bytes, pos) == Only({next_u4_pair_second(bytes, a)
                                    : a \in {next_u4(bytes, pos)}})

\* match arm 1: the length, the bytes, the conversion, the entry
utf8_entry(tag, length, byte_vec, value) ==
    IF ~value.ok THEN Fail(byte_vec.pos, value.err)
    ELSE Ok(byte_vec.pos, [kind |-> "Utf8", tag |-> tag, length |-> length.val,
                           value |-> value.val])

utf8_value(tag, length, byte_vec) ==
    IF ~byte_vec.ok THEN byte_vec
    ELSE Only({utf8_entry(tag, length, byte_vec, value)
                 : value \in {from_utf8(byte_vec.val)}})

utf8_bytes(bytes, tag, length) ==
    IF ~length.ok THEN length
    ELSE Only({utf8_value(tag, length, byte_vec)
                 : byte_vec \in {read_bytes(bytes, length.pos, length.val)}})

utf8_item(bytes, pos, tag) == Only({utf8_bytes(bytes, tag, length)
                                      : length \in {next_u2(bytes, pos)}})

\* match arms 3 and 4
integer_or_float_entry(kind, tag, a) ==
    IF ~a.ok THEN a ELSE Ok(a.pos, [kind |-> kind, tag |-> tag, bytes |-> a.val])

integer_or_float_item(bytes, pos, kind, tag) ==
    Only({integer_or_float_entry(kind, tag, a) : a \in {next_u4(bytes, pos)}})

\* match arms 5 and 6
long_or_double_entry(kind, tag, r) ==
    IF ~r.ok THEN r
    ELSE Ok(r.pos, [kind |-> kind, tag |-> tag,
                    high_bytes |-> r.val[1], low_bytes |-> r.val[2]])

long_or_double_item(bytes, pos, kind, tag) ==
    Only({long_or_double_entry(kind, tag, r)
            : r \in {next_u4_pair(bytes, pos)}})

\* match arm 7
class_entry(tag, a) ==
    IF ~a.ok THEN a
    ELSE Ok(a.pos, [kind |-> "Class", tag |-> tag, name_index |-> a.val])

class_item(bytes, pos, tag) == Only({class_entry(tag, a)
                                       : a \in {next_u2(bytes, pos)}})

\* match arm 8
string_entry(tag, a) ==
    IF ~a.ok THEN a
    ELSE Ok(a.pos, [kind |-> "String", tag |-> tag, string_index |-> a.val])

string_item(bytes, pos, tag) == Only({string_entry(tag, a)
                                        : a \in {next_u2(bytes, pos)}})

\* match arms 9, 10 and 11
field_or_method_entry(kind, tag, r) ==
    IF ~r.ok THEN r
    ELSE Ok(r.pos, [kind |-> kind, tag |-> tag,
                    class_index |-> r.val[1], name_and_type_index |-> r.val[2]])

field_or_method_item(bytes, pos, kind, tag) ==
    Only({field_or_method_entry(kind, tag, r)
            : r \in {next_u2_pair(bytes, pos)}})

\* match arm 12
name_and_type_entry(tag, r) ==
    IF ~r.ok THEN r
    ELSE Ok(r.pos, [kind |-> "NameAndType", tag |-> tag,
                    name_index |-> r.val[1], descriptor_index |-> r.val[2]])

name_and_type_item(bytes, pos, tag) ==
    Only({name_and_type_entry(tag, r) : r \in {next_u2_pair(bytes, pos)}})

\* the match on the tag
item_of_tag(bytes, tag) ==
    IF ~tag.ok THEN tag ELSE
    CASE tag.val = 1 -> utf8_item(bytes, tag.pos, tag.val)
      [] tag.val = 3 -> integer_or_float_item(bytes, tag.pos, "Integer", tag.val)
      [] tag.val = 4 -> integer_or_float_item(bytes, tag.pos, "Float", tag.val)
      [] tag.val = 5 -> long_or_double_item(bytes, tag.pos, "Long", tag.val)
      [] tag.val = 6 -> long_or_double_item(bytes, tag.pos, "Double", tag.val)
      [] tag.val = 7 -> class_item(bytes, tag.pos, tag.val)
      [] tag.val = 8 -> string_item(bytes, tag.pos, tag.val)
      [] tag.val = 9 -> field_or_method_item(bytes, tag.pos, "Field", tag.val)
      [] tag.val = 10 -> field_or_method_item(bytes, tag.pos, "Method", tag.val)
      [] tag.val = 11 ->
           field_or_method_item(bytes, tag.pos, "InterfaceMethod", tag.val)
      [] tag.val = 12 -> name_and_type_item(bytes, tag.pos, tag.val)
      [] OTHER -> Fail(tag.pos, UnknownConstantPoolTag(tag.val))

ConstantPoolItem_from(bytes, pos) == Only({item_of_tag(bytes, tag)
                                             : tag \in {next_u1(bytes, pos)}})

to_friendly_name(item) ==
    CASE item.kind = "Empty" -> "Empty"
      [] item.kind = "Utf8" -> "Utf8"
      [] item.kind = "Class" -> "Class"
      [] item.kind = "String" -> "String"
      [] item.kind = "Field" -> "Field"
      [] item.kind = "Method" -> "Method"
      [] item.kind = "InterfaceMethod" -> "InterfaceMethod"
      [] item.kind = "Integer" -> "Integer"
      [] item.kind = "Float" -> "Float"
      [] item.kind = "NameAndType" -> "NameAndType"
      [] OTHER -> "Not yet implemented"

\* `unshifted_index - 1` on usize.  With overflow checks (a debug build) the
\* subtraction 0 - 1 panics; without them it wraps to usize::MAX, kept as -1.
shift_index(unshifted_index, overflow_checks) ==
    IF unshifted_index >= 1 THEN Ok(0, unshifted_index - 1)
    ELSE IF overflow_checks THEN Fail(0, Panic("attempt to subtract with overflow"))
    ELSE Ok(0, -1)

\* Vec::get on an index kept as a signed representative: a wrapped index is
\* beyond every length.
vec_get(constant_pool, actual_index) ==
    IF actual_index >= 0 /\ actual_index < Len(constant_pool)
    THEN <<constant_pool[actual_index + 1]>>
    ELSE <<>>

\* The Rc<struct> an entry carries: the entry without its variant name.
payload(item) == [f \in (DOMAIN item) \ {"kind"} |-> item[f]]

\* constant_pool.get(actual_index).ok_or(..)
item_or_out_of_bounds(constant_pool, actual_index) ==
    IF ~actual_index.ok THEN actual_index
    ELSE IF vec_get(constant_pool, actual_index.val) # <<>>
    THEN Ok(0, vec_get(constant_pool, actual_index.val)[1])
    ELSE Fail(0, ConstantPoolIndexOutOfBounds(actual_index.val))

retrieve_item(index, constant_pool, overflow_checks) ==
    Only({item_or_out_of_bounds(constant_pool, actual_index)
            : actual_index \in {shift_index(index, overflow_checks)}})

\* `match item { .. }` on the entry found
match_variant(variant_name, item) ==
    IF item.kind = variant_name
    THEN Ok(0, payload(item))
    ELSE Fail(0, UnexpectedConstantPoolItem(to_friendly_name(item)))

\* `if let Some(item) = constant_pool.get(actual_index) { .. }` and the Err
\* after it
get_variant(variant_name, constant_pool, actual_index) ==
    IF ~actual_index.ok THEN actual_index
    ELSE IF vec_get(constant_pool, actual_index.val) # <<>>
    THEN match_variant(variant_name, vec_get(constant_pool, actual_index.val)[1])
    ELSE Fail(0, ConstantPoolIndexOutOfBounds(actual_index.val))

\* generate_constant_pool_retrieval_method!(variant_name, ..): the accessor
\* retrieve_<variant>_info, with the variant it expects as a parameter.
retrieve_info(variant_name, index, constant_pool, overflow_checks) ==
    Only({get_variant(variant_name, constant_pool, actual_index)
            : actual_index \in {shift_index(index, overflow_checks)}})

\* The variants an accessor is generated for.
AccessorVariants ==
    {"Class", "Utf8", "Field", "Method", "InterfaceMethod", "Integer", "Float",
     "Long", "Double", "String", "NameAndType"}

(***************************************************************************)
(* components.rs: attributes, exception handlers, fields and methods.      *)
(* A successful Attribute::from call also reports `calls`: for itself and  *)
(* for every attribute nested in it, where the call started, the declared  *)
(* attribute_length, where the body started and where the call ended.      *)
(***************************************************************************)
OkCalls(p, v, c) == [ok |-> TRUE, pos |-> p, val |-> v, err |-> NoErr, calls |-> c]

\* the bytes of "Code"
CodeName == <<67, 111, 100, 101>>

\* a result of an accessor, placed at the cursor of its caller
At(p, r) == [r EXCEPT !.pos = p]

exception_handler(a, b) ==
    IF ~b.ok THEN b
    ELSE Ok(b.pos, [start_pc |-> a.val[1], end_pc |-> a.val[2],
                    handler_pc |-> b.val[1], catch_type |-> b.val[2]])

exception_handler_second(bytes, a) ==
    IF ~a.ok THEN a ELSE Only({exception_handler(a, b)
                                 : b \in {next_u2_pair(bytes, a.pos)}})

ExceptionHandler_from(bytes, pos) ==
    Only({exception_handler_second(bytes, a)
            : a \in {next_u2_pair(bytes, pos)}})

\* for _ in 0..exception_table_length { push(try!(ExceptionHandler::from)) }
RECURSIVE exception_table_loop(_, _, _, _)
RECURSIVE exception_table_push(_, _, _, _)
exception_table_push(bytes, n, acc, h) ==
    IF ~h.ok THEN h
    ELSE exception_table_loop(bytes, h.pos, n - 1, Append(acc, h.val))

exception_table_loop(bytes, pos, n, acc) ==
    IF n = 0 THEN Ok(pos, acc)
    ELSE Only({exception_table_push(bytes, n, acc, h)
                 : h \in {ExceptionHandler_from(bytes, pos)}})

RECURSIVE Attribute_from(_, _, _, _)
RECURSIVE CodeAttribute_from(_, _, _, _)
RECURSIVE attributes_loop(_, _, _, _, _, _, _)
RECURSIVE attributes_push(_, _, _, _, _, _, _)

\* for _ in 0..attributes_count { push(try!(Attribute::from(..))) }
attributes_push(bytes, constant_pool, overflow_checks, n, acc, calls, a) ==
    IF ~a.ok THEN a
    ELSE attributes_loop(bytes, a.pos, constant_pool, overflow_checks, n - 1,
                         Append(acc, a.val), calls \o a.calls)

attributes_loop(bytes, pos, constant_pool, overflow_checks, n, acc, calls) ==
    IF n = 0 THEN OkCalls(pos, acc, calls)
    ELSE Only({attributes_push(bytes, constant_pool, overflow_checks, n, acc,
                               calls, a)
                 : a \in {Attribute_from(bytes, pos, constant_pool,
                                         overflow_checks)}})

\* CodeAttribute::from, from its last step back to its first
code_attribute(stack_locals, code_length, code, exception_table_length, exception_table, attributes_count, attributes) ==
    IF ~attributes.ok THEN attributes
    ELSE OkCalls(attributes.pos,
                 [max_stack |-> stack_locals.val[1],
                  max_locals |-> stack_locals.val[2],
                  code_length |-> code_length.val,
                  code |-> code.val,
                  exception_table_length |-> exception_table_length.val,
                  exception_table |-> exception_table.val,
                  attributes_count |-> attributes_count.val,
                  attributes |-> attributes.val],
                 attributes.calls)

code_attributes(bytes, constant_pool, overflow_checks, stack_locals, code_length, code, exception_table_length, exception_table, attributes_count) ==
    IF ~attributes_count.ok THEN attributes_count
    ELSE Only({code_attribute(stack_locals, code_length, code,
                              exception_table_length, exception_table,
                              attributes_count, attributes)
                 : attributes \in {attributes_loop(bytes, attributes_count.pos,
                                            constant_pool, overflow_checks,
                                            attributes_count.val, <<>>, <<>>)}})

code_attributes_count(bytes, constant_pool, overflow_checks, stack_locals, code_length, code, exception_table_length, exception_table) ==
    IF ~exception_table.ok THEN exception_table
    ELSE Only({code_attributes(bytes, constant_pool, overflow_checks,
                               stack_locals, code_length, code,
                               exception_table_length, exception_table,
                               attributes_count)
                 : attributes_count \in {next_u2(bytes, exception_table.pos)}})

code_exception_table(bytes, constant_pool, overflow_checks, stack_locals, code_length, code, exception_table_length) ==
    IF ~exception_table_length.ok THEN exception_table_length
    ELSE Only({code_attributes_count(bytes, constant_pool, overflow_checks,
                                     stack_locals, code_length, code,
                                     exception_table_length, exception_table)
                 : exception_table \in {exception_table_loop(bytes,
                                            exception_table_length.pos,
                                            exception_table_length.val, <<>>)}})

code_exception_table_length(bytes, constant_pool, overflow_checks, stack_locals, code_length, code) ==
    IF ~code.ok THEN code
    ELSE Only({code_exception_table(bytes, constant_pool, overflow_checks,
                                    stack_locals, code_length, code,
                                    exception_table_length)
                 : exception_table_length \in {next_u2(bytes, code.pos)}})

code_bytes(bytes, constant_pool, overflow_checks, stack_locals, code_length) ==
    IF ~code_length.ok THEN code_length
    ELSE Only({code_exception_table_length(bytes, constant_pool,
                                           overflow_checks, stack_locals,
                                           code_length, code)
                 : code \in {read_bytes_u4(bytes, code_length.pos,
                                           code_length.val)}})

code_length_of(bytes, constant_pool, overflow_checks, stack_locals) ==
    IF ~stack_locals.ok THEN stack_locals
    ELSE Only({code_bytes(bytes, constant_pool, overflow_checks, stack_locals,
                          code_length)
                 : code_length \in {next_u4(bytes, stack_locals.pos)}})

CodeAttribute_from(bytes, pos, constant_pool, overflow_checks) ==
    Only({code_length_of(bytes, constant_pool, overflow_checks, stack_locals)
            : stack_locals \in {next_u2_pair(bytes, pos)}})

\* what is reported of a call of Attribute::from that returned Ok
attribute_call(pos, attribute_length, end, is_code) ==
    [start |-> pos, attribute_length |-> attribute_length.val,
     body |-> attribute_length.pos, end |-> end, code |-> is_code]

\* Attribute::from, from its last step back to its first
code_variant(pos, attribute_length, c) ==
    IF ~c.ok THEN c
    ELSE OkCalls(c.pos, [kind |-> "Code", code |-> c.val],
                 c.calls \o <<attribute_call(pos, attribute_length, c.pos, TRUE)>>)

unknown_variant(pos, attribute_name, attribute_length, info) ==
    IF ~info.ok THEN info
    ELSE OkCalls(info.pos,
                 [kind |-> "Unknown", attribute_name |-> attribute_name.val,
                  info |-> info.val],
                 <<attribute_call(pos, attribute_length, info.pos, FALSE)>>)

\* the match on the attribute name
attribute_body(bytes, pos, constant_pool, overflow_checks, attribute_name, attribute_length) ==
    IF ~attribute_length.ok THEN attribute_length
    ELSE IF attribute_name.val.value = CodeName
    THEN Only({code_variant(pos, attribute_length, c)
                 : c \in {CodeAttribute_from(bytes, attribute_length.pos,
                                            constant_pool, overflow_checks)}})
    ELSE Only({unknown_variant(pos, attribute_name, attribute_length, info)
                 : info \in {read_bytes_u4(bytes, attribute_length.pos,
                                           attribute_length.val)}})

attribute_length_of(bytes, pos, constant_pool, overflow_checks, attribute_name_index, attribute_name) ==
    IF ~attribute_name.ok THEN attribute_name
    ELSE Only({attribute_body(bytes, pos, constant_pool, overflow_checks,
                              attribute_name, attribute_length)
                 : attribute_length \in {next_u4(bytes,
                                            attribute_name_index.pos)}})

attribute_name_of(bytes, pos, constant_pool, overflow_checks, attribute_name_index) ==
    IF ~attribute_name_index.ok THEN attribute_name_index
    ELSE Only({attribute_length_of(bytes, pos, constant_pool, overflow_checks,
                                   attribute_name_index, attribute_name)
                 : attribute_name \in {At(attribute_name_index.pos,
                                          retrieve_info("Utf8",
                                          attribute_name_index.val,
                                          constant_pool, overflow_checks))}})

Attribute_from(bytes, pos, constant_pool, overflow_checks) ==
    Only({attribute_name_of(bytes, pos, constant_pool, overflow_checks,
                            attribute_name_index)
            : attribute_name_index \in {next_u2(bytes, pos)}})

\* generate_method_or_field_parser_impl!: Field::from and Method::from, from
\* the last step back to the first
member(access_flags, name, descriptor, attributes_count, attributes) ==
    IF ~attributes.ok THEN attributes
    ELSE OkCalls(attributes.pos,
                 [access_flags |-> access_flags.val,
                  name |-> name.val,
                  descriptor |-> descriptor.val,
                  attributes_count |-> attributes_count.val,
                  attributes |-> attributes.val],
                 attributes.calls)

member_attributes(bytes, constant_pool, overflow_checks, access_flags, name, descriptor, attributes_count) ==
    IF ~attributes_count.ok THEN attributes_count
    ELSE Only({member(access_flags, name, descriptor, attributes_count,
                      attributes)
                 : attributes \in {attributes_loop(bytes, attributes_count.pos,
                                            constant_pool, overflow_checks,
                                            attributes_count.val, <<>>, <<>>)}})

member_attributes_count(bytes, constant_pool, overflow_checks, access_flags, name, descriptor_index, descriptor) ==
    IF ~descriptor.ok THEN descriptor
    ELSE Only({member_attributes(bytes, constant_pool, overflow_checks,
                                 access_flags, name, descriptor,
                                 attributes_count)
                 : attributes_count \in {next_u2(bytes, descriptor_index.pos)}})

member_descriptor(bytes, constant_pool, overflow_checks, access_flags, name, descriptor_index) ==
    IF ~descriptor_index.ok THEN descriptor_index
    ELSE Only({member_attributes_count(bytes, constant_pool, overflow_checks,
                                       access_flags, name, descriptor_index,
                                       descriptor)
                 : descriptor \in {At(descriptor_index.pos,
                                      retrieve_info("Utf8",
                                      descriptor_index.val, constant_pool,
                                      overflow_checks))}})

member_descriptor_index(bytes, constant_pool, overflow_checks, access_flags, name_index, name) ==
    IF ~name.ok THEN name
    ELSE Only({member_descriptor(bytes, constant_pool, overflow_checks,
                                 access_flags, name, descriptor_index)
                 : descriptor_index \in {next_u2(bytes, name_index.pos)}})

member_name(bytes, constant_pool, overflow_checks, access_flags, name_index) ==
    IF ~name_index.ok THEN name_index
    ELSE Only({member_descriptor_index(bytes, constant_pool, overflow_checks,
                                       access_flags, name_index, name)
                 : name \in {At(name_index.pos, retrieve_info("Utf8",
                                name_index.val, constant_pool,
                                overflow_checks))}})

member_name_index(bytes, constant_pool, overflow_checks, access_flags) ==
    IF ~access_flags.ok THEN access_flags
    ELSE Only({member_name(bytes, constant_pool, overflow_checks, access_flags,
                           name_index)
                 : name_index \in {next_u2(bytes, access_flags.pos)}})

Member_from(bytes, pos, constant_pool, overflow_checks) ==
    Only({member_name_index(bytes, constant_pool, overflow_checks, access_flags)
            : access_flags \in {next_u2(bytes, pos)}})

\* rc_populate_vec!(count, Field::from(..)) and rc_populate_vec!(count, Method::from(..))
RECURSIVE members_loop(_, _, _, _, _, _, _)
RECURSIVE members_push(_, _, _, _, _, _, _)
members_push(bytes, constant_pool, overflow_checks, n, acc, calls, m) ==
    IF ~m.ok THEN m
    ELSE members_loop(bytes, m.pos, constant_pool, overflow_checks, n - 1,
                      Append(acc, m.val), calls \o m.calls)

members_loop(bytes, pos, constant_pool, overflow_checks, n, acc, calls) ==
    IF n = 0 THEN OkCalls(pos, acc, calls)
    ELSE Only({members_push(bytes, constant_pool, overflow_checks, n, acc,
                            calls, m)
                 : m \in {Member_from(bytes, pos, constant_pool,
                                      overflow_checks)}})

\* populate_vec!(interfaces_count, bytes.next_u2())
RECURSIVE interfaces_loop(_, _, _, _)
RECURSIVE interfaces_push(_, _, _, _)
interfaces_push(bytes, n, acc, i) ==
    IF ~i.ok THEN i ELSE interfaces_loop(bytes, i.pos, n - 1, Append(acc, i.val))

interfaces_loop(bytes, pos, n, acc) ==
    IF n = 0 THEN Ok(pos, acc)
    ELSE Only({interfaces_push(bytes, n, acc, i) : i \in {next_u2(bytes, pos)}})

\* `let count = try!(next_u2()); let v = <loop over 0..count>`
interfaces_of_count(bytes, n) ==
    IF ~n.ok THEN n ELSE interfaces_loop(bytes, n.pos, n.val, <<>>)

members_of_count(bytes, constant_pool, overflow_checks, n) ==
    IF ~n.ok THEN n
    ELSE members_loop(bytes, n.pos, constant_pool, overflow_checks, n.val,
                      <<>>, <<>>)

attributes_of_count(bytes, constant_pool, overflow_checks, n) ==
    IF ~n.ok THEN n
    ELSE attributes_loop(bytes, n.pos, constant_pool, overflow_checks, n.val,
                         <<>>, <<>>)

(***************************************************************************)
(* lib.rs: the ClassFile aggregator.  A decoder state d holds the stage    *)
(* ClassFile::from is about to run, its cursor and its locals; each stage  *)
(* is a function from decoder states to decoder states.                    *)
(***************************************************************************)
Start ==
    [stage |-> "Magic", pos |-> 0, err |-> NoErr,
     magic |-> [hi |-> 0, lo |-> 0], minor_version |-> 0, major_version |-> 0,
     constant_pool_count |-> 0, actual_constant_pool_count |-> 0,
     pool_loop |-> "before", iteration |-> 0, should_skip |-> FALSE,
     constant_pool |-> <<>>,
     access_flags |-> 0, this_class |-> 0, super_class |-> 0,
     interfaces |-> <<>>, fields |-> <<>>, methods |-> <<>>, attributes |-> <<>>,
     attribute_calls |-> <<>>, classfile |-> NoVal]

\* A failing step whose error is noted while the function carries on, as a
\* call without try! would.
abort_and_carry_on(d, r) == [d EXCEPT !.err = r.err]

\* try!: the first failing step ends ClassFile::from with its error
abort(d, r) ==
    [d EXCEPT !.stage = IF r.err.kind = "Panic" THEN "Panic" ELSE "Error",
              !.pos = r.pos, !.err = r.err]

\* lib.rs 85
put_magic(d, r) ==
    IF ~r.ok THEN abort(d, r)
    ELSE [d EXCEPT !.stage = "Version", !.pos = r.pos, !.magic = r.val]

stage_magic(bytes, d) == Only({put_magic(d, r) : r \in {next_u4(bytes, d.pos)}})

\* lib.rs 86-87
put_version(d, r) ==
    IF ~r.ok THEN abort(d, r)
    ELSE [d EXCEPT !.stage = "ConstantPool", !.pos = r.pos,
                   !.minor_version = r.val[1], !.major_version = r.val[2]]

stage_version(bytes, d) == Only({put_version(d, r)
                                   : r \in {next_u2_pair(bytes, d.pos)}})

\* `constant_pool_count - 1` on U2: panics on 0 with overflow checks, wraps
\* to 65535 without them.
actual_count(constant_pool_count, overflow_checks) ==
    IF constant_pool_count >= 1 THEN Ok(0, constant_pool_count - 1)
    ELSE IF overflow_checks THEN Fail(0, Panic("attempt to subtract with overflow"))
    ELSE Ok(0, 65535)

\* lib.rs 89-91: read the count, subtract one, enter build_constant_pool
put_actual_count(d, r, a) ==
    IF ~a.ok
    THEN [abort(d, a) EXCEPT !.constant_pool_count = r.val]
    ELSE [d EXCEPT !.pos = r.pos, !.constant_pool_count = r.val,
                   !.actual_constant_pool_count = a.val, !.pool_loop = "in"]

put_pool_count(overflow_checks, d, r) ==
    IF ~r.ok THEN abort(d, r)
    ELSE Only({put_actual_count(d, r, a)
                 : a \in {At(r.pos, actual_count(r.val, overflow_checks))}})

stage_pool_count(bytes, overflow_checks, d) ==
    Only({put_pool_count(overflow_checks, d, r)
            : r \in {next_u2(bytes, d.pos)}})

\* The loop without the placeholder after a Long or Double.
push_item_without_placeholder(d, item) ==
    IF ~item.ok THEN abort(d, item)
    ELSE IF item.val.kind \in {"Long", "Double"}
    THEN [d EXCEPT !.pos = item.pos, !.iteration = @ + 1, !.should_skip = TRUE,
                   !.constant_pool = Append(@, item.val)]
    ELSE [d EXCEPT !.pos = item.pos, !.iteration = @ + 1,
                   !.constant_pool = Append(@, item.val)]

\* lib.rs 171-180: the try! and the match on the decoded item
push_item(d, item) ==
    IF ~item.ok THEN abort(d, item)
    ELSE IF item.val.kind \in {"Long", "Double"}
    THEN [d EXCEPT !.pos = item.pos, !.iteration = @ + 1, !.should_skip = TRUE,
                   !.constant_pool = @ \o <<item.val, Empty>>]
    ELSE [d EXCEPT !.pos = item.pos, !.iteration = @ + 1,
                   !.constant_pool = Append(@, item.val)]

\* The loop with a skip that leaves the counter and the flag as they are.
build_iteration_skipping_in_place(bytes, d) ==
    IF d.should_skip
    THEN d
    ELSE Only({push_item(d, item)
                 : item \in {ConstantPoolItem_from(bytes, d.pos)}})

\* lib.rs 165-181: one iteration of the loop of build_constant_pool
build_iteration(bytes, d) ==
    IF d.should_skip
    THEN [d EXCEPT !.iteration = @ + 1, !.should_skip = FALSE]
    ELSE Only({push_item(d, item)
                 : item \in {ConstantPoolItem_from(bytes, d.pos)}})

\* lib.rs 183: the loop is over, the pool is returned
build_return(d) == [d EXCEPT !.stage = "AccessFlags", !.pool_loop = "after"]

\* lib.rs 93
put_access_flags(d, r) ==
    IF ~r.ok THEN abort(d, r)
    ELSE [d EXCEPT !.stage = "ClassRefs", !.pos = r.pos, !.access_flags = r.val]

stage_access_flags(bytes, d) == Only({put_access_flags(d, r)
                                        : r \in {next_u2(bytes, d.pos)}})

\* lib.rs 94-95
put_class_refs(d, r) ==
    IF ~r.ok THEN abort(d, r)
    ELSE [d EXCEPT !.stage = "Interfaces", !.pos = r.pos,
                   !.this_class = r.val[1], !.super_class = r.val[2]]

stage_class_refs(bytes, d) == Only({put_class_refs(d, r)
                                      : r \in {next_u2_pair(bytes, d.pos)}})

\* lib.rs 97-98
put_interfaces(d, r) ==
    IF ~r.ok THEN abort(d, r)
    ELSE [d EXCEPT !.stage = "Fields", !.pos = r.pos, !.interfaces = r.val]

stage_interfaces(bytes, d) ==
    Only({put_interfaces(d, r)
            : r \in {Only({interfaces_of_count(bytes, n)
                             : n \in {next_u2(bytes, d.pos)}})}})

\* lib.rs 100-101
put_fields(d, r) ==
    IF ~r.ok THEN abort(d, r)
    ELSE [d EXCEPT !.stage = "Methods", !.pos = r.pos, !.fields = r.val,
                   !.attribute_calls = @ \o r.calls]

stage_fields(bytes, overflow_checks, d) ==
    Only({put_fields(d, r)
            : r \in {Only({members_of_count(bytes, d.constant_pool,
                                            overflow_checks, n)
                             : n \in {next_u2(bytes, d.pos)}})}})

\* lib.rs 103-104
put_methods(d, r) ==
    IF ~r.ok THEN abort(d, r)
    ELSE [d EXCEPT !.stage = "ClassAttributes", !.pos = r.pos, !.methods = r.val,
                   !.attribute_calls = @ \o r.calls]

stage_methods(bytes, overflow_checks, d) ==
    Only({put_methods(d, r)
            : r \in {Only({members_of_count(bytes, d.constant_pool,
                                            overflow_checks, n)
                             : n \in {next_u2(bytes, d.pos)}})}})

\* lib.rs 110-127: the ClassFile built from the locals
ClassFile(d, attributes) ==
    [magic |-> d.magic,
     minor_version |-> d.minor_version,
     major_version |-> d.major_version,
     constant_pool_count |-> d.constant_pool_count,
     constant_pool |-> d.constant_pool,
     access_flags |-> d.access_flags,
     this_class |-> d.this_class,
     super_class |-> d.super_class,
     interfaces_count |-> Len(d.interfaces),
     interfaces |-> d.interfaces,
     fields_count |-> Len(d.fields),
     fields |-> d.fields,
     methods_count |-> Len(d.methods),
     methods |-> d.methods,
     attributes_count |-> Len(attributes),
     attributes |-> attributes]

\* lib.rs 106-127
put_class_attributes(d, r) ==
    IF ~r.ok THEN abort(d, r)
    ELSE [d EXCEPT !.stage = "Done", !.pos = r.pos, !.attributes = r.val,
                   !.attribute_calls = @ \o r.calls,
                   !.classfile = ClassFile(d, r.val)]

stage_class_attributes(bytes, overflow_checks, d) ==
    Only({put_class_attributes(d, r)
            : r \in {Only({attributes_of_count(bytes, d.constant_pool,
                                               overflow_checks, n)
                             : n \in {next_u2(bytes, d.pos)}})}})

Terminal(d) == d.stage \in {"Done", "Error", "Panic"}

\* the next step of ClassFile::from
Step(bytes, overflow_checks, d) ==
    CASE d.stage = "Magic" -> stage_magic(bytes, d)
      [] d.stage = "Version" -> stage_version(bytes, d)
      [] d.stage = "ConstantPool" /\ d.pool_loop = "before" ->
           stage_pool_count(bytes, overflow_checks, d)
      [] d.stage = "ConstantPool" /\ d.pool_loop = "in"
           /\ d.iteration < d.actual_constant_pool_count ->
           build_iteration(bytes, d)
      [] d.stage = "ConstantPool" /\ d.pool_loop = "in"
           /\ d.iteration >= d.actual_constant_pool_count ->
           build_return(d)
      [] d.stage = "AccessFlags" -> stage_access_flags(bytes, d)
      [] d.stage = "ClassRefs" -> stage_class_refs(bytes, d)
      [] d.stage = "Interfaces" -> stage_interfaces(bytes, d)
      [] d.stage = "Fields" -> stage_fields(bytes, overflow_checks, d)
      [] d.stage = "Methods" -> stage_methods(bytes, overflow_checks, d)
      [] d.stage = "ClassAttributes" ->
           stage_class_attributes(bytes, overflow_checks, d)
      [] OTHER -> d

\* ClassFile::from run to its end on a stream
RECURSIVE Run(_, _, _)
Run(bytes, overflow_checks, d) ==
    IF Terminal(d) THEN d ELSE Only({Run(bytes, overflow_checks, d_)
                                       : d_ \in {Step(bytes, overflow_checks,
                                            d)}})

ClassFile_from(bytes, overflow_checks) == Run(bytes, overflow_checks, Start)

(***************************************************************************)
(* lib.rs: the accessors derived from a ClassFile.                         *)
(***************************************************************************)
\* Option<Rc<Method>>
None == [some |-> FALSE]

Some(v) == [some |-> TRUE, val |-> v]

\* the bytes of "main"
MainName == <<109, 97, 105, 110>>

\* A search that keeps the last method of that name.
RECURSIVE last_method_named(_, _, _)
last_method_named(self, name, i) ==
    IF i < 1 THEN None
    ELSE IF self.methods[i].name.value = name THEN Some(self.methods[i])
    ELSE last_method_named(self, name, i - 1)

maybe_resolve_last_method(self, name) ==
    last_method_named(self, name, Len(self.methods))

\* `for method in &self.methods { if method.name.eq(name) { return .. } }`
\* from the i-th method on, and the None after the loop
RECURSIVE first_method_named(_, _, _)
first_method_named(self, name, i) ==
    IF i > Len(self.methods) THEN None
    ELSE IF self.methods[i].name.value = name THEN Some(self.methods[i])
    ELSE first_method_named(self, name, i + 1)

maybe_resolve_method(self, name) == first_method_named(self, name, 1)

maybe_resolve_main_method(self) == maybe_resolve_method(self, MainName)

\* classname: the two try!(retrieve_.._info(..)), the second as an operator
\* of the result of the first
classname_utf8_info(self, overflow_checks, class_info) ==
    IF ~class_info.ok THEN class_info
    ELSE retrieve_info("Utf8", class_info.val.name_index, self.constant_pool, overflow_checks)

classname(self, overflow_checks) ==
    Only({classname_utf8_info(self, overflow_checks, class_info)
            : class_info \in {retrieve_info("Class", self.this_class,
                                            self.constant_pool,
                                            overflow_checks)}})

(***************************************************************************)
(* The byte streams the decoder is run on.                                 *)
(***************************************************************************)
\* longest constant pool, in wire entries, of the pool streams
MaxPoolEntries == 3

\* deepest nesting of a Code attribute inside Code attributes
MaxNest == 1

\* largest declared index an accessor is called with
MaxIndex == 4

\* longest constant pool, in wire entries, of the accessor streams
MaxAccessPoolEntries == 2

U2Bytes(x) == <<x \div 256, x % 256>>

U4Bytes(x) == <<0, 0>> \o U2Bytes(x)

RECURSIVE Flatten(_)
Flatten(ss) == IF ss = <<>> THEN <<>> ELSE Head(ss) \o Flatten(Tail(ss))

SeqsUpTo(S, n) == UNION {[1..k -> S] : k \in 0..n}

\* 0xCAFEBABE as the U4 read from the stream
MagicSentinel == [hi |-> 51966, lo |-> 47806]

MagicBytes == <<202, 254, 186, 190>>

\* minor 0, major 52
VersionBytes == <<0, 0, 0, 52>>

WUtf8(bs) == <<1>> \o U2Bytes(Len(bs)) \o bs

WClass(i) == <<7>> \o U2Bytes(i)

WLong == <<5, 0, 0, 0, 0, 0, 0, 0, 1>>

WDouble == <<6, 64, 9, 33, 251, 84, 68, 45, 24>>

WInteger == <<3, 0, 0, 0, 7>>

\* tag 15 with a reference_kind and a reference_index
WMethodHandle == <<15, 1, 0, 1>>

PoolAlphabet ==
    {WUtf8(<<65>>), WUtf8(<<255>>), WClass(1), WLong, WDouble, WInteger,
     <<2>>, WMethodHandle}

\* the index slots a sequence of wire entries takes
RECURSIVE Slots(_)
Slots(es) ==
    IF es = <<>> THEN 0
    ELSE (IF Head(es)[1] \in {5, 6} THEN 2 ELSE 1) + Slots(Tail(es))

\* access_flags ACC_PUBLIC | ACC_SUPER, this_class, super_class, then no
\* interfaces, fields, methods or attributes
PlainTail(this_class, super_class) ==
    <<0, 33>> \o U2Bytes(this_class) \o U2Bytes(super_class)
    \o <<0, 0>> \o <<0, 0>> \o <<0, 0>> \o <<0, 0>>

\* Streams that vary the constant pool: every sequence of wire entries, with
\* the count the format asks for, the count of wire entries, and 0.
PoolStreams ==
    UNION {
      { MagicBytes \o VersionBytes \o U2Bytes(c) \o Flatten(es) \o PlainTail(1, 1)
          : c \in {Slots(es) + 1, Len(es) + 1, 0} }
      : es \in SeqsUpTo(PoolAlphabet, MaxPoolEntries) }

\* The pool of the member and attribute streams:
\*   1 Utf8 "Code", 2 Utf8 "A", 3 Class{2}, 4 Long, 5 (placeholder)
MemberPool == <<WUtf8(CodeName), WUtf8(<<65>>), WClass(2), WLong>>

MemberHead ==
    MagicBytes \o VersionBytes \o U2Bytes(Slots(MemberPool) + 1) \o Flatten(MemberPool)

\* an attribute the decoder has no arm for, with its declared body
WUnknown(n) == U2Bytes(2) \o U4Bytes(n) \o [i \in 1..n |-> 9]

\* an attribute header whose name index does not name a Utf8 entry
WBadName(i) == U2Bytes(i) \o U4Bytes(0)

WHandler == <<0, 0, 0, 1, 0, 1, 0, 3>>

\* a Code attribute: the body, and the attribute with the length it is
\* declared with
WCodeBody(handlers, nested) ==
    <<0, 1, 0, 1>> \o U4Bytes(1) \o <<177>>
    \o U2Bytes(Len(handlers)) \o Flatten(handlers)
    \o U2Bytes(Len(nested)) \o Flatten(nested)

WCode(declared, handlers, nested) ==
    U2Bytes(1) \o U4Bytes(declared) \o WCodeBody(handlers, nested)

LeafAttributes == {WUnknown(0), WUnknown(1), WBadName(0), WBadName(3)}

RECURSIVE AttributeWires(_)
AttributeWires(depth) ==
    IF depth = 0 THEN LeafAttributes
    ELSE LET inner == AttributeWires(depth - 1) IN
         inner \cup
         UNION {
           LET body == WCodeBody(hs, ns) IN
           {WCode(Len(body), hs, ns), WCode(0, hs, ns)}
           : hs \in {<<>>, <<WHandler>>},
             ns \in {<<>>} \cup {<<a>> : a \in inner} }

\* access_flags, name_index, descriptor_index, attributes
WMember(name_index, attrs) ==
    <<0, 9>> \o U2Bytes(name_index) \o U2Bytes(2)
    \o U2Bytes(Len(attrs)) \o Flatten(attrs)

WList(items) == U2Bytes(Len(items)) \o Flatten(items)

ClassStream(magic, this_class, super_class, interfaces, fields, methods, attrs) ==
    magic \o VersionBytes \o U2Bytes(Slots(MemberPool) + 1) \o Flatten(MemberPool)
    \o <<0, 33>> \o U2Bytes(this_class) \o U2Bytes(super_class)
    \o U2Bytes(Len(interfaces)) \o Flatten(interfaces)
    \o WList(fields) \o WList(methods) \o WList(attrs)

\* Streams that vary the header: the magic, the class references, the
\* interfaces and the fields.
HeaderStreams ==
    { ClassStream(m, t, s, i, f, <<>>, <<>>)
        : m \in {MagicBytes, <<202, 254, 186, 191>>, <<0, 0, 0, 0>>},
          t \in {3, 2}, s \in {3, 0},
          i \in {<<>>, <<U2Bytes(3)>>},
          f \in {<<>>, <<WMember(2, <<>>)>>, <<WMember(0, <<>>)>>} }

\* Streams that vary the attributes of one method and of the class.
AttributeStreams ==
    { ClassStream(MagicBytes, 3, 3, <<>>, <<>>, m, a)
        : m \in {<<>>} \cup {<<WMember(2, as)>>
                    : as \in {<<>>} \cup {<<x>> : x \in AttributeWires(MaxNest)}},
          a \in {<<>>} \cup {<<x>> : x \in LeafAttributes} }

\* A class with an interface, a field, a method with a Code attribute that
\* holds a handler and a nested attribute, and a class attribute.
FullClass ==
    LET body == WCodeBody(<<WHandler>>, <<WUnknown(1)>>) IN
    ClassStream(MagicBytes, 3, 3, <<U2Bytes(3)>>, <<WMember(2, <<>>)>>,
                <<WMember(2, <<WCode(Len(body), <<WHandler>>, <<WUnknown(1)>>)>>)>>,
                <<WUnknown(1)>>)

\* Every proper prefix of the full class: the stream cut short at each byte.
TruncatedStreams == {SubSeq(FullClass, 1, k) : k \in 0..(Len(FullClass) - 1)}

DecodeStreams ==
    PoolStreams \cup HeaderStreams \cup AttributeStreams \cup TruncatedStreams
    \cup {FullClass}

\* Streams for the accessors: short pools, decoded whole.
AccessStreams ==
    { MagicBytes \o VersionBytes \o U2Bytes(Slots(es) + 1) \o Flatten(es)
      \o PlainTail(1, 1)
        : es \in SeqsUpTo(PoolAlphabet \ {<<2>>, WMethodHandle, WUtf8(<<255>>)},
                          MaxAccessPoolEntries) }

\* most methods of the streams of the derived accessors
MaxMethods == 2

\* The pool of the streams of the derived accessors:
\*   1 Utf8 "main", 2 Utf8 "A", 3 Class{2}, 4 Class{3}, 5 Class{9},
\*   6 Class{0}, 7 Long, 8 (placeholder)
DerivedPool ==
    <<WUtf8(MainName), WUtf8(<<65>>), WClass(2), WClass(3), WClass(9), WClass(0), WLong>>

\* methods named "main" and "A", each bare and with an attribute
MethodAlphabet ==
    {WMember(1, <<>>), WMember(1, <<WUnknown(0)>>),
     WMember(2, <<>>), WMember(2, <<WUnknown(0)>>)}

\* Streams for the derived accessors: this_class ranges over the entries of
\* the pool, 0 and an index past the pool; the methods over every sequence.
DerivedStreams ==
    { MagicBytes \o VersionBytes \o U2Bytes(Slots(DerivedPool) + 1)
      \o Flatten(DerivedPool) \o <<0, 33>> \o U2Bytes(t) \o U2Bytes(3)
      \o <<0, 0>> \o <<0, 0>> \o WList(ms) \o <<0, 0>>
        : t \in 0..(Slots(DerivedPool) + 1),
          ms \in SeqsUpTo(MethodAlphabet, MaxMethods) }

\* deepest nesting of attributes in the streams decoding is to end on: at 2
\* a Code attribute holds a Code attribute that holds an attribute
MaxCodeNest == 2

\* Streams with one method whose attribute nests Code attributes, declared
\* with the length of the body or with 0.
NestedStreams ==
    { ClassStream(MagicBytes, 3, 3, <<>>, <<>>, <<WMember(2, <<x>>)>>, <<>>)
        : x \in AttributeWires(MaxCodeNest) }

\* Streams decoding is to end on: the nested attributes, the attributes of
\* a method and of the class, and the full class cut short at every byte.
TerminationStreams ==
    NestedStreams \cup AttributeStreams \cup TruncatedStreams \cup {FullClass}

(***************************************************************************)
(* The state: the stream and the build profile, the position of            *)
(* ClassFile::from (the stage about to run, the cursor, its locals), its   *)
(* result, and the last accessor call made on a decoded class file.        *)
(***************************************************************************)
VARIABLES
    input,                      \* the bytes of the file
    overflow_checks,            \* TRUE: arithmetic overflow panics (debug build)
    stage,                      \* the stage about to run, or Done / Error / Panic
    pos,                        \* bytes consumed so far
    err,                        \* the error ClassFile::from ended with
    magic, minor_version, major_version,
    constant_pool_count,
    actual_constant_pool_count, \* the count build_constant_pool is called with
    pool_loop,                  \* "before", "in" or "after" the loop of build_constant_pool
    iteration,                  \* iterations of that loop completed
    should_skip,
    constant_pool,
    access_flags, this_class, super_class,
    interfaces, fields, methods, attributes,
    attribute_calls,            \* the Attribute::from calls that returned Ok
    classfile,                  \* the ClassFile returned, NoVal until then
    lookup                      \* the last accessor call: what was asked, what came back

decoder_vars ==
    <<stage, pos, err, magic, minor_version, major_version, constant_pool_count,
      actual_constant_pool_count, pool_loop, iteration, should_skip,
      constant_pool, access_flags, this_class, super_class, interfaces, fields,
      methods, attributes, attribute_calls, classfile>>

vars == <<input, overflow_checks, decoder_vars, lookup>>

\* the decoder state the variables hold
Cur ==
    [stage |-> stage, pos |-> pos, err |-> err,
     magic |-> magic, minor_version |-> minor_version,
     major_version |-> major_version,
     constant_pool_count |-> constant_pool_count,
     actual_constant_pool_count |-> actual_constant_pool_count,
     pool_loop |-> pool_loop, iteration |-> iteration,
     should_skip |-> should_skip, constant_pool |-> constant_pool,
     access_flags |-> access_flags, this_class |-> this_class,
     super_class |-> super_class, interfaces |-> interfaces, fields |-> fields,
     methods |-> methods, attributes |-> attributes,
     attribute_calls |-> attribute_calls, classfile |-> classfile]

\* the variables take the decoder state d
Becomes(d) ==
    /\ stage' = d.stage
    /\ pos' = d.pos
    /\ err' = d.err
    /\ magic' = d.magic
    /\ minor_version' = d.minor_version
    /\ major_version' = d.major_version
    /\ constant_pool_count' = d.constant_pool_count
    /\ actual_constant_pool_count' = d.actual_constant_pool_count
    /\ pool_loop' = d.pool_loop
    /\ iteration' = d.iteration
    /\ should_skip' = d.should_skip
    /\ constant_pool' = d.constant_pool
    /\ access_flags' = d.access_flags
    /\ this_class' = d.this_class
    /\ super_class' = d.super_class
    /\ interfaces' = d.interfaces
    /\ fields' = d.fields
    /\ methods' = d.methods
    /\ attributes' = d.attributes
    /\ attribute_calls' = d.attribute_calls
    /\ classfile' = d.classfile
    /\ UNCHANGED <<input, overflow_checks, lookup>>

NoLookup == [accessor |-> "", index |-> 0, result |-> NoVal]

InitOn(streams) ==
    /\ input \in streams
    /\ overflow_checks \in BOOLEAN
    /\ stage = Start.stage
    /\ pos = Start.pos
    /\ err = Start.err
    /\ magic = Start.magic
    /\ minor_version = Start.minor_version
    /\ major_version = Start.major_version
    /\ constant_pool_count = Start.constant_pool_count
    /\ actual_constant_pool_count = Start.actual_constant_pool_count
    /\ pool_loop = Start.pool_loop
    /\ iteration = Start.iteration
    /\ should_skip = Start.should_skip
    /\ constant_pool = Start.constant_pool
    /\ access_flags = Start.access_flags
    /\ this_class = Start.this_class
    /\ super_class = Start.super_class
    /\ interfaces = Start.interfaces
    /\ fields = Start.fields
    /\ methods = Start.methods
    /\ attributes = Start.attributes
    /\ attribute_calls = Start.attribute_calls
    /\ classfile = Start.classfile
    /\ lookup = NoLookup

Init == InitOn(DecodeStreams)

ReadMagic ==
    /\ stage = "Magic"
    /\ \E d \in {stage_magic(input, Cur)} : Becomes(d)

ReadVersion ==
    /\ stage = "Version"
    /\ \E d \in {stage_version(input, Cur)} : Becomes(d)

ReadConstantPoolCount ==
    /\ stage = "ConstantPool"
    /\ pool_loop = "before"
    /\ \E d \in {stage_pool_count(input, overflow_checks, Cur)} : Becomes(d)

BuildConstantPoolIteration ==
    /\ stage = "ConstantPool"
    /\ pool_loop = "in"
    /\ iteration < actual_constant_pool_count
    /\ \E d \in {build_iteration(input, Cur)} : Becomes(d)

BuildConstantPoolReturn ==
    /\ stage = "ConstantPool"
    /\ pool_loop = "in"
    /\ iteration >= actual_constant_pool_count
    /\ \E d \in {build_return(Cur)} : Becomes(d)

ReadAccessFlags ==
    /\ stage = "AccessFlags"
    /\ \E d \in {stage_access_flags(input, Cur)} : Becomes(d)

ReadClassRefs ==
    /\ stage = "ClassRefs"
    /\ \E d \in {stage_class_refs(input, Cur)} : Becomes(d)

ReadInterfaces ==
    /\ stage = "Interfaces"
    /\ \E d \in {stage_interfaces(input, Cur)} : Becomes(d)

ReadFields ==
    /\ stage = "Fields"
    /\ \E d \in {stage_fields(input, overflow_checks, Cur)} : Becomes(d)

ReadMethods ==
    /\ stage = "Methods"
    /\ \E d \in {stage_methods(input, overflow_checks, Cur)} : Becomes(d)

ReadClassAttributes ==
    /\ stage = "ClassAttributes"
    /\ \E d \in {stage_class_attributes(input, overflow_checks, Cur)} : Becomes(d)

\* A consumer calls one of the typed accessors on the decoded pool.
RetrieveInfo ==
    /\ stage = "Done"
    /\ \E variant_name \in AccessorVariants, index \in 0..MaxIndex :
         lookup' = [accessor |-> variant_name, index |-> index,
                    result |-> retrieve_info(variant_name, index,
                                             classfile.constant_pool,
                                             overflow_checks)]
    /\ UNCHANGED <<input, overflow_checks, decoder_vars>>

\* A consumer calls retrieve_item on the decoded pool.
RetrieveItem ==
    /\ stage = "Done"
    /\ \E index \in 0..MaxIndex :
         lookup' = [accessor |-> "item", index |-> index,
                    result |-> retrieve_item(index, classfile.constant_pool,
                                             overflow_checks)]
    /\ UNCHANGED <<input, overflow_checks, decoder_vars>>

Decode ==
    \/ ReadMagic
    \/ ReadVersion
    \/ ReadConstantPoolCount
    \/ BuildConstantPoolIteration
    \/ BuildConstantPoolReturn
    \/ ReadAccessFlags
    \/ ReadClassRefs
    \/ ReadInterfaces
    \/ ReadFields
    \/ ReadMethods
    \/ ReadClassAttributes

Next == Decode

Spec == Init /\ [][Next]_vars

\* Decoding, then accessor calls on what was decoded.
AccessInit == InitOn(AccessStreams)

AccessNext == Decode \/ RetrieveInfo \/ RetrieveItem

AccessSpec == AccessInit /\ [][AccessNext]_vars

\* the names a consumer looks methods up by: "main", "A", "B"
LookupNames == {MainName, <<65>>, <<66>>}

\* A consumer calls maybe_resolve_method on the decoded class file.
MaybeResolveMethod ==
    /\ stage = "Done"
    /\ \E name \in LookupNames :
         lookup' = [accessor |-> "maybe_resolve_method", index |-> 0,
                    name |-> name,
                    result |-> maybe_resolve_method(classfile, name)]
    /\ UNCHANGED <<input, overflow_checks, decoder_vars>>

\* A consumer calls maybe_resolve_main_method on the decoded class file.
MaybeResolveMainMethod ==
    /\ stage = "Done"
    /\ lookup' = [accessor |-> "maybe_resolve_main_method", index |-> 0,
                  name |-> MainName,
                  result |-> maybe_resolve_main_method(classfile)]
    /\ UNCHANGED <<input, overflow_checks, decoder_vars>>

\* A consumer calls classname on the decoded class file.
Classname ==
    /\ stage = "Done"
    /\ lookup' = [accessor |-> "classname", index |-> 0, name |-> <<>>,
                  result |-> classname(classfile, overflow_checks)]
    /\ UNCHANGED <<input, overflow_checks, decoder_vars>>

\* Decoding, then calls of the derived accessors on what was decoded.
DerivedInit == InitOn(DerivedStreams)

DerivedNext == Decode \/ MaybeResolveMethod \/ MaybeResolveMainMethod \/ Classname

DerivedSpec == DerivedInit /\ [][DerivedNext]_vars

\* ClassFile::from is one call on one thread: once called it runs every step
\* it has, so a step that can be taken is taken.
FairInit == InitOn(TerminationStreams)

FairSpec == FairInit /\ [][Next]_vars /\ WF_vars(Next)

(***************************************************************************)
(* Properties.                                                             *)
(***************************************************************************)

\* C1: every Attribute::from call that returned Ok consumed, after the 4-byte
\* length field, exactly as many bytes as the length field declares, whether
\* the attribute is a Code attribute or any other.
C1_AttributeAdvancesByDeclaredLength ==
    \A i \in 1..Len(attribute_calls) :
        /\ attribute_calls[i].attribute_length.hi = 0
        /\ attribute_calls[i].end - attribute_calls[i].body
             = attribute_calls[i].attribute_length.lo

\* A Code attribute was decoded although its declared length is not the
\* length of its body.
C1_CodeIgnoresDeclaredLength ==
    \E i \in 1..Len(attribute_calls) :
        /\ attribute_calls[i].code
        /\ attribute_calls[i].attribute_length.lo = 0
        /\ attribute_calls[i].end > attribute_calls[i].body

WideKinds == {"Long", "Double"}

\* C2: in the pool build_constant_pool returns, every Long or Double entry is
\* immediately followed by the Empty placeholder, and the Empty placeholder
\* stands nowhere but directly after a Long or Double entry.
C2_PlaceholderFollowsLongOrDouble ==
    pool_loop = "after" =>
        \A i \in 1..Len(constant_pool) :
            /\ constant_pool[i].kind \in WideKinds =>
                 (i + 1 <= Len(constant_pool) /\ constant_pool[i + 1] = Empty)
            /\ constant_pool[i] = Empty =>
                 (i > 1 /\ constant_pool[i - 1].kind \in WideKinds)

\* A returned pool with a Long or Double entry, its placeholder, and an entry
\* after the placeholder.
C2_PoolWithLongOrDouble ==
    /\ pool_loop = "after"
    /\ \E i \in 1..Len(constant_pool) :
         /\ constant_pool[i].kind \in WideKinds
         /\ i + 2 <= Len(constant_pool)
         /\ constant_pool[i + 2] # Empty

\* C3: every ClassFile returned has a pool of exactly constant_pool_count - 1
\* slots, a Long or Double and its placeholder counting as two.
C3_PoolLengthIsCountMinusOne ==
    classfile # NoVal =>
        Len(classfile.constant_pool) = classfile.constant_pool_count - 1

\* A ClassFile was returned whose pool ends with a Long or Double placed at
\* the last declared slot: the placeholder makes the pool one slot longer.
C3_LongOrDoubleAtLastSlot ==
    /\ classfile # NoVal
    /\ Len(classfile.constant_pool) = classfile.constant_pool_count

\* C4: an accessor (retrieve_*_info or retrieve_item) called with declared
\* index 0 returns the ConstantPoolIndexOutOfBounds error: it returns no
\* entry and does not fail to return.
C4_IndexZeroIsOutOfBounds ==
    (lookup.accessor # "" /\ lookup.index = 0) =>
        /\ ~lookup.result.ok
        /\ lookup.result.err.kind = "ConstantPoolIndexOutOfBounds"

\* An accessor called with index 0 did not return: the subtraction panicked.
C4_IndexZeroPanics ==
    /\ lookup.accessor # ""
    /\ lookup.index = 0
    /\ lookup.result.err.kind = "Panic"

\* the entry a declared index in range names
slot(index) == classfile.constant_pool[index]

\* C5: a typed accessor called with an index in range whose slot holds an
\* entry of another variant fails with UnexpectedConstantPoolItem carrying
\* the kind of the entry found; it never returns Ok.
C5_WrongVariantNamesKindFound ==
    (/\ lookup.accessor \in AccessorVariants
     /\ lookup.index \in 1..Len(classfile.constant_pool)
     /\ slot(lookup.index).kind # lookup.accessor) =>
        /\ ~lookup.result.ok
        /\ lookup.result.err.kind = "UnexpectedConstantPoolItem"
        /\ lookup.result.err.name = slot(lookup.index).kind

\* A typed accessor found a Long or Double where it expected another variant
\* and reported "Not yet implemented".
C5_LongOrDoubleNotNamed ==
    /\ lookup.accessor \in AccessorVariants
    /\ lookup.index \in 1..Len(classfile.constant_pool)
    /\ slot(lookup.index).kind \in WideKinds
    /\ slot(lookup.index).kind # lookup.accessor
    /\ lookup.result.err.name = "Not yet implemented"

\* The tags ConstantPoolItem::from has an arm for.
KnownTags == {1, 3, 4, 5, 6, 7, 8, 9, 10, 11, 12}

\* ConstantPoolItem::from is about to read a tag it has no arm for.
AtUnknownTag ==
    /\ stage = "ConstantPool"
    /\ pool_loop = "in"
    /\ iteration < actual_constant_pool_count
    /\ ~should_skip
    /\ pos < Len(input)
    /\ input[pos + 1] \notin KnownTags

\* C6: when ConstantPoolItem::from reads a tag byte it has no arm for, the
\* decoding ends with UnknownConstantPoolTag carrying that tag; no entry is
\* pushed and no byte after the tag is read.
C6_UnknownTagIsReported ==
    [][AtUnknownTag =>
         /\ stage' = "Error"
         /\ err'.kind = "UnknownConstantPoolTag"
         /\ err'.arg = input[pos + 1]
         /\ pos' = pos + 1
         /\ constant_pool' = constant_pool
         /\ classfile' = NoVal]_vars

\* Decoding ended on the tag 2, met after two entries had been pushed.
C6_UnknownTagTwoMet ==
    /\ stage = "Error"
    /\ err.kind = "UnknownConstantPoolTag"
    /\ err.arg = 2
    /\ input[pos] = 2
    /\ Len(constant_pool) >= 2

\* A payload that is complete for every tag: a Utf8 of length 1, and 8 bytes
\* for the widest fixed layout.
CompletePayload == <<0, 1, 65, 0, 0, 0, 0, 0>>

\* ConstantPoolItem::from on the tag t followed by the complete payload
from_tag(t) == ConstantPoolItem_from(<<t>> \o CompletePayload, 0)

\* C7: every variant of ConstantPoolItem but Empty has a wire tag on which
\* ConstantPoolItem::from, given a complete payload, returns that variant;
\* and ConstantPoolItem::from returns Empty on no tag.
C7_EveryVariantHasATag ==
    /\ \A k \in ConstantPoolItemKinds \ {"Empty"} :
         \E t \in 0..255 : from_tag(t).ok /\ from_tag(t).val.kind = k
    /\ \A t \in 0..255 : from_tag(t).ok => from_tag(t).val # Empty

\* The pool loop ended on tag 15, the wire tag of MethodHandle.
C7_MethodHandleTagRejected ==
    /\ stage = "Error"
    /\ err.kind = "UnknownConstantPoolTag"
    /\ err.arg = 15

\* ClassFile::from on the first m bytes of the stream
from_prefix(m) == ClassFile_from(SubSeq(input, 1, m), overflow_checks)

\* C8: when ClassFile::from returns a ClassFile after consuming n bytes,
\* decoding any strictly shorter prefix of those n bytes ends with the
\* end-of-input error and returns no ClassFile.
C8_TruncatedInputIsEndOfInput ==
    stage = "Done" =>
        \A m \in 0..(pos - 1) :
            /\ from_prefix(m).stage = "Error"
            /\ from_prefix(m).err = new_eof_error
            /\ from_prefix(m).classfile = NoVal

\* A ClassFile with an interface, a field, a method with a Code attribute,
\* an exception handler, a nested attribute and a class attribute was
\* returned.
C8_FullClassDecoded ==
    /\ stage = "Done"
    /\ pos = Len(input)
    /\ Len(interfaces) = 1
    /\ Len(fields) = 1
    /\ Len(methods) = 1
    /\ Len(attributes) = 1
    /\ \E i \in 1..Len(attribute_calls) : attribute_calls[i].code

\* C9: every ClassFile returned has the magic 0xCAFEBABE.
C9_MagicIsSentinel ==
    classfile # NoVal => classfile.magic = MagicSentinel

\* A ClassFile was returned for a stream that does not start with 0xCAFEBABE.
C9_WrongMagicAccepted ==
    /\ classfile # NoVal
    /\ SubSeq(input, 1, 4) # MagicBytes

\* C10: for every ClassFile returned, this_class and super_class both resolve
\* through retrieve_class_info against its pool without error.
C10_ClassReferencesResolve ==
    classfile # NoVal =>
        /\ retrieve_info("Class", classfile.this_class, classfile.constant_pool,
                         overflow_checks).ok
        /\ retrieve_info("Class", classfile.super_class, classfile.constant_pool,
                         overflow_checks).ok

\* A ClassFile was returned whose this_class names a Utf8 entry.
C10_ThisClassNamesUtf8 ==
    /\ classfile # NoVal
    /\ classfile.this_class \in 1..Len(classfile.constant_pool)
    /\ classfile.constant_pool[classfile.this_class].kind = "Utf8"

\* The stages of ClassFile::from, in the order of its statements.
StageOrder ==
    <<"Magic", "Version", "ConstantPool", "AccessFlags", "ClassRefs",
      "Interfaces", "Fields", "Methods", "ClassAttributes", "Done">>

\* ClassFile::from has ended: it returned Ok, returned Err, or panicked.
Ended == stage \in {"Done", "Error", "Panic"}

\* C11: ClassFile::from moves through its stages in the order Magic, Version,
\* ConstantPool, AccessFlags, ClassRefs, Interfaces, Fields, Methods,
\* ClassAttributes, Done, each stage entered from the one before it and none
\* entered again; the first failing step ends the decoding with its error,
\* after which no stage runs and no byte is consumed; the cursor never moves
\* back; and a ClassFile exists exactly when Done is reached.
C11_StagesRunInOrder ==
    [][/\ (stage' # stage /\ stage' \notin {"Error", "Panic"}) =>
            \E i \in 1..(Len(StageOrder) - 1) :
                stage = StageOrder[i] /\ stage' = StageOrder[i + 1]
       /\ Ended => UNCHANGED decoder_vars
       /\ (err' # NoErr) <=> (stage' \in {"Error", "Panic"})
       /\ (stage' = "Error") => (err'.kind # "Panic")
       /\ (classfile' # NoVal) <=> (stage' = "Done")
       /\ pos' >= pos]_vars

\* Decoding failed in the Methods stage or after it: the stages before had
\* run and read an interface and a field.
C11_FailedAfterFields ==
    /\ stage = "Error"
    /\ err = new_eof_error
    /\ Len(interfaces) = 1
    /\ Len(fields) = 1
    /\ classfile = NoVal

\* C12: a lookup with the index of the Empty placeholder that follows a Long
\* or Double, through any typed accessor or through retrieve_item, returns an
\* error: the placeholder is never handed out as a resolved entry.
C12_PlaceholderIndexIsInvalid ==
    (/\ lookup.accessor \in AccessorVariants \cup {"item"}
     /\ lookup.index \in 1..Len(classfile.constant_pool)
     /\ slot(lookup.index) = Empty) =>
        ~lookup.result.ok

\* retrieve_item returned Ok with the placeholder.
C12_RetrieveItemHandsOutPlaceholder ==
    /\ lookup.accessor = "item"
    /\ lookup.index \in 2..Len(classfile.constant_pool)
    /\ slot(lookup.index - 1).kind \in WideKinds
    /\ lookup.result.ok
    /\ lookup.result.val = Empty

\* the positions of the methods of the decoded class file named `name`
MethodsNamed(name) ==
    {i \in 1..Len(classfile.methods) : classfile.methods[i].name.value = name}

\* C13: maybe_resolve_method(name) returns the method of lowest position
\* whose name equals name, and None exactly when no method has that name;
\* maybe_resolve_main_method is that lookup for "main".
C13_FirstMethodOfThatNameWins ==
    /\ lookup.accessor \in {"maybe_resolve_method", "maybe_resolve_main_method"} =>
         /\ (lookup.result = None) <=> (MethodsNamed(lookup.name) = {})
         /\ \A i \in MethodsNamed(lookup.name) :
              (\A j \in MethodsNamed(lookup.name) : i <= j) =>
                  lookup.result = Some(classfile.methods[i])
    /\ lookup.accessor = "maybe_resolve_main_method" => lookup.name = MainName

\* maybe_resolve_method found a method whose name a later, different method
\* shares.
C13_FirstOfTwoReturned ==
    /\ lookup.accessor = "maybe_resolve_method"
    /\ lookup.result.some
    /\ \E i, j \in MethodsNamed(lookup.name) :
         /\ i < j
         /\ classfile.methods[i] # classfile.methods[j]
         /\ lookup.result.val = classfile.methods[i]

\* the declared index i names an entry of the decoded pool
InPool(i) == i \in 1..Len(classfile.constant_pool)

\* the first hop of classname resolves: this_class names a Class entry
FirstHopResolves ==
    InPool(classfile.this_class) /\ slot(classfile.this_class).kind = "Class"

\* the index the second hop resolves
ClassNameIndex == slot(classfile.this_class).name_index

\* C14: classname() resolves this_class to a Class entry and that entry's
\* name_index to a Utf8 entry, which it returns; a hop that is out of bounds
\* makes it return ConstantPoolIndexOutOfBounds, a hop that names an entry of
\* another kind UnexpectedConstantPoolItem, and no name.
C14_ClassnameResolvesInTwoHops ==
    lookup.accessor = "classname" =>
        /\ ~InPool(classfile.this_class) =>
             (~lookup.result.ok
              /\ lookup.result.err.kind = "ConstantPoolIndexOutOfBounds")
        /\ (InPool(classfile.this_class) /\ ~FirstHopResolves) =>
             (~lookup.result.ok
              /\ lookup.result.err.kind = "UnexpectedConstantPoolItem")
        /\ (FirstHopResolves /\ ~InPool(ClassNameIndex)) =>
             (~lookup.result.ok
              /\ lookup.result.err.kind = "ConstantPoolIndexOutOfBounds")
        /\ (FirstHopResolves /\ InPool(ClassNameIndex)
            /\ slot(ClassNameIndex).kind # "Utf8") =>
             (~lookup.result.ok
              /\ lookup.result.err.kind = "UnexpectedConstantPoolItem")
        /\ (FirstHopResolves /\ InPool(ClassNameIndex)
            /\ slot(ClassNameIndex).kind = "Utf8") =>
             (lookup.result.ok
              /\ lookup.result.val = payload(slot(ClassNameIndex)))

\* classname() did not return: the Class entry has name_index 0 and the
\* subtraction of the second hop panicked.
C14_SecondHopPanics ==
    /\ lookup.accessor = "classname"
    /\ FirstHopResolves
    /\ ClassNameIndex = 0
    /\ lookup.result.err.kind = "Panic"

\* the entries of a pool that were read from the wire
WireEntries(pool) == Cardinality({i \in 1..Len(pool) : pool[i] # Empty})

\* the Long and Double entries of a pool
WideEntries(pool) ==
    Cardinality({i \in 1..Len(pool) : pool[i].kind \in WideKinds})

\* an iteration of the loop of build_constant_pool is about to run
InPoolLoop ==
    /\ stage = "ConstantPool"
    /\ pool_loop = "in"
    /\ iteration < actual_constant_pool_count

\* C15: the iteration of build_constant_pool that follows the push of a Long
\* or Double consumes no byte and clears the skip flag; the k-th entry read
\* from the wire is stored at declared index 1 + (k - 1) + the number of
\* Long/Double entries among the first k - 1; and the entries read plus the
\* Long/Double entries never exceed constant_pool_count - 1.
C15_SkipKeepsIndexing ==
    [][/\ (InPoolLoop /\ should_skip) =>
            /\ pos' = pos
            /\ ~should_skip'
            /\ constant_pool' = constant_pool
       /\ (InPoolLoop /\ ~should_skip /\ stage' = "ConstantPool") =>
            /\ SubSeq(constant_pool', 1, Len(constant_pool)) = constant_pool
            /\ constant_pool'[1 + WireEntries(constant_pool)
                                + WideEntries(constant_pool)] # Empty
            /\ WireEntries(constant_pool') = WireEntries(constant_pool) + 1
            /\ should_skip' = (constant_pool'[Len(constant_pool) + 1].kind
                                 \in WideKinds)
       /\ (stage' = "ConstantPool" /\ constant_pool_count' >= 1) =>
            WireEntries(constant_pool') + WideEntries(constant_pool')
                <= constant_pool_count' - 1]_vars

\* The loop ended on the push of a Long or Double at the last declared slot:
\* the entries read and the Long/Double entries are constant_pool_count.
C15_LoopEndsOnLongOrDouble ==
    /\ stage = "ConstantPool"
    /\ pool_loop = "in"
    /\ should_skip
    /\ iteration = actual_constant_pool_count
    /\ constant_pool_count >= 1
    /\ WireEntries(constant_pool) + WideEntries(constant_pool) = constant_pool_count

\* C16: decoding ends on every finite stream, whatever counts it declares and
\* however its Code attributes nest: ClassFile::from reaches the Done result
\* or fails (with a returned error, or with a panic in a build with overflow
\* checks); and every Attribute::from call that returned consumed the six
\* bytes of its header before its body, which ends at or after its start.
C16_DecodingTerminates ==
    /\ <>Ended
    /\ [](\A i \in 1..Len(attribute_calls) :
            /\ attribute_calls[i].body = attribute_calls[i].start + 6
            /\ attribute_calls[i].end >= attribute_calls[i].body)

\* decoding is done on a Code attribute that holds a Code attribute
C16_DoneOnCodeInsideCode ==
    /\ stage = "Done"
    /\ \E i, j \in 1..Len(attribute_calls) :
         /\ i # j
         /\ attribute_calls[i].code
         /\ attribute_calls[j].code
         /\ attribute_calls[j].body <= attribute_calls[i].start
         /\ attribute_calls[i].end <= attribute_calls[j].end

=============================================================================
